---- MODULE Spec2Model ----
(***************************************************************************)
(* Model of the Streamlit chess session of src/app.py.                     *)
(*                                                                         *)
(* The session state is st.session_state (board, player_turn, last_error,  *)
(* move_count) plus the widget values Streamlit keeps between script       *)
(* executions (the game mode selectbox, the text field keyed manual_move). *)
(* Every user event runs the script once from top to bottom; st.rerun()    *)
(* abandons the execution and starts a new one with no button pressed.     *)
(* The board component's value is delivered to the one execution its drop  *)
(* starts.  Whether an engine exists (STOCKFISH_PATH set and the engine     *)
(* started) is fixed when the session begins; an engine's answer is any     *)
(* text, no move, or a fault.                                               *)
(*                                                                         *)
(* The rules library (python-chess) is outside the repository.  It is      *)
(* modelled as a small chess: a board of Files x Ranks squares with kings, *)
(* queens, rooks, bishops, knights and pawns moving by the usual rules     *)
(* (no castling, no double step, no en passant), promotion on the last     *)
(* rank, and the library's game-over test.  Move texts are sequences of    *)
(* one-character strings, so that parsing is done as from_uci does it.     *)
(***************************************************************************)
EXTENDS Integers, Sequences, FiniteSets, TLC

(***************************************************************************)
(* Board geometry and piece alphabet of the rules library.                 *)
(***************************************************************************)
\* No move is pushed on a move stack that already holds MaxPly moves.
MaxPly == 3

Files == <<"a", "b", "c">>
Ranks == <<"1", "2", "3", "4">>
NF == Len(Files)
NR == Len(Ranks)
Squares == 0 .. (NF * NR - 1)

None == "None"
\* A text that is None or empty: python tests both with "if text:".
NoText == <<>>
WHITE == TRUE
BLACK == FALSE

\* chess.PIECE_SYMBOLS without its leading None: the letters from_uci accepts
\* as a fifth character.
PIECE_SYMBOLS == {"p", "n", "b", "r", "q", "k"}
\* The pieces a pawn may become.
PromotionPieces == {"n", "b", "r", "q"}

WhitePieces == {"P", "N", "B", "R", "Q", "K"}
BlackPieces == {"p", "n", "b", "r", "q", "k"}
Empty == "."

Upper(c) == CASE c = "p" -> "P" [] c = "n" -> "N" [] c = "b" -> "B"
              [] c = "r" -> "R" [] c = "q" -> "Q" [] c = "k" -> "K"
              [] OTHER -> c
Lower(c) == CASE c = "P" -> "p" [] c = "N" -> "n" [] c = "B" -> "b"
              [] c = "R" -> "r" [] c = "Q" -> "q" [] c = "K" -> "k"
              [] OTHER -> c

file_of(s) == s % NF
rank_of(s) == s \div NF
square(f, r) == r * NF + f
OnBoard(f, r) == f >= 0 /\ f < NF /\ r >= 0 /\ r < NR

IndexOf(seq, x) == CHOOSE i \in 1 .. Len(seq) : seq[i] = x
Has(seq, x) == \E i \in 1 .. Len(seq) : seq[i] = x

\* chess.square_name: the two-character name of a square.
square_name(s) == <<Files[file_of(s) + 1], Ranks[rank_of(s) + 1]>>

\* SQUARE_NAMES.index(name) succeeds exactly for the names of squares.
IsSquareName(name) == Len(name) = 2 /\ Has(Files, name[1]) /\ Has(Ranks, name[2])
parse_square(name) == square(IndexOf(Files, name[1]) - 1, IndexOf(Ranks, name[2]) - 1)

(***************************************************************************)
(* chess.Move and chess.Move.from_uci.                                     *)
(***************************************************************************)
Move(f, t, p) == [from_square |-> f, to_square |-> t, promotion |-> p]

\* The text of a move: origin, destination and the promotion letter if any.
uci(m) == square_name(m.from_square) \o square_name(m.to_square)
            \o (IF m.promotion = None THEN <<>> ELSE <<m.promotion>>)

\* from_uci raises ValueError unless the text is "0000" or has 4 or 5
\* characters, two square names that differ and, as a fifth character, a
\* piece symbol.
from_uci_ok(text) ==
    \/ text = <<"0", "0", "0", "0">>
    \/ /\ Len(text) \in {4, 5}
       /\ IsSquareName(SubSeq(text, 1, 2))
       /\ IsSquareName(SubSeq(text, 3, 4))
       /\ Len(text) = 5 => text[5] \in PIECE_SYMBOLS
       /\ SubSeq(text, 1, 2) # SubSeq(text, 3, 4)

from_uci(text) ==
    IF text = <<"0", "0", "0", "0">>
    THEN Move(0, 0, None)
    ELSE Move(parse_square(SubSeq(text, 1, 2)),
              parse_square(SubSeq(text, 3, 4)),
              IF Len(text) = 5 THEN text[5] ELSE None)

(***************************************************************************)
(* Positions: the piece on every square, the side to move and the two      *)
(* move clocks of the serialized form.                                     *)
(***************************************************************************)
IsWhite(p) == p \in WhitePieces
IsBlack(p) == p \in BlackPieces
ColorOf(p) == IsWhite(p)
Own(pos, s) == pos.sq[s] # Empty /\ ColorOf(pos.sq[s]) = pos.turn
Enemy(pos, s) == pos.sq[s] # Empty /\ ColorOf(pos.sq[s]) # pos.turn

KingSteps == {<<df, dr>> \in {-1, 0, 1} \X {-1, 0, 1} : df # 0 \/ dr # 0}
KnightSteps == {<<df, dr>> \in {-2, -1, 1, 2} \X {-2, -1, 1, 2} : df * df + dr * dr = 5}
RookDirs == {<<1, 0>>, <<-1, 0>>, <<0, 1>>, <<0, -1>>}
BishopDirs == {<<1, 1>>, <<1, -1>>, <<-1, 1>>, <<-1, -1>>}
MaxSlide == IF NF > NR THEN NF ELSE NR

StepTargets(s, steps) ==
    {square(file_of(s) + d[1], rank_of(s) + d[2]) :
        d \in {e \in steps : OnBoard(file_of(s) + e[1], rank_of(s) + e[2])}}

\* The squares a sliding piece on s reaches along the directions dirs: every
\* square before the first occupied one, and that one.
SlideTargets(sq, s, dirs) ==
    {square(file_of(s) + x[2] * x[1][1], rank_of(s) + x[2] * x[1][2]) :
        x \in {y \in dirs \X (1 .. MaxSlide) :
                /\ OnBoard(file_of(s) + y[2] * y[1][1], rank_of(s) + y[2] * y[1][2])
                /\ \A j \in 1 .. (y[2] - 1) :
                      sq[square(file_of(s) + j * y[1][1], rank_of(s) + j * y[1][2])] = Empty}}

Forward(color) == IF color = WHITE THEN 1 ELSE -1
LastRank(color) == IF color = WHITE THEN NR - 1 ELSE 0

\* The squares the piece on s attacks.
Attacks(sq, s) ==
    LET p == sq[s]
        k == Upper(p)
    IN  CASE k = "K" -> StepTargets(s, KingSteps)
          [] k = "N" -> StepTargets(s, KnightSteps)
          [] k = "R" -> SlideTargets(sq, s, RookDirs)
          [] k = "B" -> SlideTargets(sq, s, BishopDirs)
          [] k = "Q" -> SlideTargets(sq, s, RookDirs \cup BishopDirs)
          [] k = "P" -> StepTargets(s, {<<-1, Forward(ColorOf(p))>>, <<1, Forward(ColorOf(p))>>})
          [] OTHER -> {}

\* Whether a piece of the given color attacks square t.
IsAttackedBy(sq, color, t) ==
    \E s \in Squares : sq[s] # Empty /\ ColorOf(sq[s]) = color /\ t \in Attacks(sq, s)

KingSquares(sq, color) == {s \in Squares : sq[s] = (IF color = WHITE THEN "K" ELSE "k")}
InCheck(sq, color) == \E s \in KingSquares(sq, color) : IsAttackedBy(sq, ~color, s)

\* The piece placement after a move.
Place(sq, m) ==
    LET p == sq[m.from_square]
        q == IF m.promotion = None THEN p
             ELSE IF IsWhite(p) THEN Upper(m.promotion) ELSE Lower(m.promotion)
    IN  [sq EXCEPT ![m.from_square] = Empty, ![m.to_square] = q]

PromotionsOf(pos, s, t) ==
    IF rank_of(t) = LastRank(pos.turn)
    THEN {Move(s, t, p) : p \in PromotionPieces}
    ELSE {Move(s, t, None)}

PseudoLegalFrom(pos, s) ==
    IF ~Own(pos, s) THEN {}
    ELSE IF Upper(pos.sq[s]) = "P"
    THEN LET f == file_of(s)
             r == rank_of(s) + Forward(pos.turn)
             ahead == IF OnBoard(f, r) /\ pos.sq[square(f, r)] = Empty
                      THEN {square(f, r)} ELSE {}
             takes == {t \in Attacks(pos.sq, s) : Enemy(pos, t)}
         IN  UNION {PromotionsOf(pos, s, t) : t \in ahead \cup takes}
    ELSE {Move(s, t, None) : t \in {u \in Attacks(pos.sq, s) : ~Own(pos, u)}}

\* board.legal_moves: the pseudo-legal moves that do not leave the mover's
\* own king attacked.
LegalMovesOf(pos) ==
    {m \in UNION {PseudoLegalFrom(pos, s) : s \in Squares} :
        ~InCheck(Place(pos.sq, m), pos.turn)}

(***************************************************************************)
(* chess.Board: the position, the moves made (move_stack) and the          *)
(* positions saved before each of them, which pop() restores.              *)
(***************************************************************************)
Kind(sq, color, kinds) ==
    {s \in Squares : sq[s] # Empty /\ ColorOf(sq[s]) = color /\ Upper(sq[s]) \in kinds}
AllKinds == {"P", "N", "B", "R", "Q", "K"}
IsDark(s) == (file_of(s) + rank_of(s)) % 2 = 0

\* Board.has_insufficient_material(color).
has_insufficient_material(sq, color) ==
    IF Kind(sq, color, {"P", "R", "Q"}) # {} THEN FALSE
    ELSE IF Kind(sq, color, {"N"}) # {}
    THEN /\ Cardinality(Kind(sq, color, AllKinds)) <= 2
         /\ Kind(sq, ~color, {"P", "N", "B", "R"}) = {}
    ELSE IF Kind(sq, color, {"B"}) # {}
    THEN LET bishops == Kind(sq, WHITE, {"B"}) \cup Kind(sq, BLACK, {"B"})
         IN  /\ (\A s \in bishops : IsDark(s)) \/ (\A s \in bishops : ~IsDark(s))
             /\ Kind(sq, WHITE, {"P", "N"}) \cup Kind(sq, BLACK, {"P", "N"}) = {}
    ELSE TRUE

is_insufficient_material(sq) ==
    has_insufficient_material(sq, WHITE) /\ has_insufficient_material(sq, BLACK)

\* The position after a legal move: the placement, the other side to move,
\* the halfmove clock (zeroed by pawn moves and captures) and the fullmove
\* number (incremented after black's moves).
After(pos, m) ==
    LET zeroing == Upper(pos.sq[m.from_square]) = "P" \/ pos.sq[m.to_square] # Empty
    IN  [sq |-> Place(pos.sq, m),
         turn |-> ~pos.turn,
         halfmove |-> IF zeroing THEN 0 ELSE pos.halfmove + 1,
         fullmove |-> IF pos.turn = BLACK THEN pos.fullmove + 1 ELSE pos.fullmove]

\* chess.Board(): the fresh starting position, white to move.
StartPlacement ==
    [s \in Squares |->
        CASE s = parse_square(<<"b", "2">>) -> "K"
          [] s = parse_square(<<"c", "3">>) -> "P"
          [] s = parse_square(<<"a", "4">>) -> "k"
          [] OTHER -> Empty]

StartPos == [sq |-> StartPlacement, turn |-> WHITE, halfmove |-> 0, fullmove |-> 1]

\* The positions of games of at most n legal moves, and their legal moves:
\* computed once, so that legal_moves is a lookup.
RECURSIVE PositionsWithin(_)
PositionsWithin(n) ==
    IF n = 0 THEN {StartPos}
    ELSE LET prev == PositionsWithin(n - 1)
         IN  prev \cup UNION {{After(p, m) : m \in LegalMovesOf(p)} : p \in prev}

LegalMoveTable == [p \in PositionsWithin(MaxPly) |-> LegalMovesOf(p)]

legal_moves(b) ==
    IF b.pos \in DOMAIN LegalMoveTable THEN LegalMoveTable[b.pos] ELSE LegalMovesOf(b.pos)

\* Iterating board.legal_moves: every legal move once, in the generator's
\* order.
RECURSIVE MoveList(_)
MoveList(moves) ==
    IF moves = {} THEN <<>>
    ELSE LET m == CHOOSE x \in moves : TRUE
         IN  <<m>> \o MoveList(moves \ {m})

MoveListTable == [p \in PositionsWithin(MaxPly) |-> MoveList(LegalMoveTable[p])]

\* for move in board.legal_moves
generate_legal_moves(b) ==
    IF b.pos \in DOMAIN MoveListTable THEN MoveListTable[b.pos] ELSE MoveList(legal_moves(b))

\* A lookup that keeps the moves arriving on the square instead of those
\* leaving it.
get_legal_moves_for_square_by_target(b, name) ==
    LET square_obj == parse_square(name)
        from_here == SelectSeq(generate_legal_moves(b),
                               LAMBDA m : m.to_square = square_obj)
    IN  [i \in 1 .. Len(from_here) |-> square_name(from_here[i].to_square)]

\* get_legal_moves_for_square(board, square): the list of the destination
\* names of the legal moves whose origin is the square, one entry per move.
get_legal_moves_for_square(b, name) ==
    LET square_obj == parse_square(name)
        from_here == SelectSeq(generate_legal_moves(b),
                               LAMBDA m : m.from_square = square_obj)
    IN  [i \in 1 .. Len(from_here) |-> square_name(from_here[i].to_square)]

is_check(b) == InCheck(b.pos.sq, b.pos.turn)
is_checkmate(b) == is_check(b) /\ legal_moves(b) = {}
is_stalemate(b) == ~is_check(b) /\ legal_moves(b) = {}

\* board.is_game_over(): checkmate, stalemate or insufficient material (the
\* seventy-five-move and fivefold-repetition rules need more moves than
\* MaxPly allows).
is_game_over(b) ==
    is_insufficient_material(b.pos.sq) \/ legal_moves(b) = {}

\* board.fen(): placement, side to move, halfmove clock, fullmove number.
fen(b) == <<[s \in Squares |-> b.pos.sq[s]],
            IF b.pos.turn = WHITE THEN "w" ELSE "b",
            b.pos.halfmove, b.pos.fullmove>>

\* board.push(move).
push(b, m) ==
    [pos |-> After(b.pos, m),
     move_stack |-> Append(b.move_stack, m),
     stack |-> Append(b.stack, b.pos)]

\* board.pop(): restores the position saved by the last push.
pop(b) ==
    [pos |-> b.stack[Len(b.stack)],
     move_stack |-> SubSeq(b.move_stack, 1, Len(b.move_stack) - 1),
     stack |-> SubSeq(b.stack, 1, Len(b.stack) - 1)]

\* board.peek(): the last move made.
peek(b) == b.move_stack[Len(b.move_stack)]

\* display_interactive_board: the last move to highlight, "" if there is none.
last_move(b) ==
    IF b.move_stack # <<>>
    THEN square_name(peek(b).from_square) \o <<"-">> \o square_name(peek(b).to_square)
    ELSE <<>>

\* chess.Board(): a board in the starting position with no move made.
Board == [pos |-> StartPos, move_stack |-> <<>>, stack |-> <<>>]

(***************************************************************************)
(* Bounds of the model.                                                    *)
(***************************************************************************)

\* The move texts the board component, the text field and the engine deliver.
Inputs ==
    { <<"c", "3", "c", "4">>,            \* pawn to the last rank, no suffix
      <<"c", "3", "c", "4", "q">>,       \* queen promotion (checkmate)
      <<"c", "3", "c", "4", "n">>,       \* knight promotion (bare kings and a knight)
      <<"b", "2", "c", "2">>,            \* king moves
      <<"c", "2", "c", "1">>,
      <<"a", "4", "a", "3">>,
      <<"a", "3", "a", "4">>,
      <<"a", "4", "b", "4">>,            \* legal once only a knight is left
      <<"b", "2", "b", "3">>,            \* illegal in the starting position
      <<"b", "2", "c", "2", "q">>,       \* promotion suffix on a king move
      <<"c", "3", "c", "9">>,            \* no such square
      <<"c", "3">> }                     \* too short

(***************************************************************************)
(* The session.                                                            *)
(***************************************************************************)
VARIABLES
    board,        \* st.session_state.board
    player_turn,  \* st.session_state.player_turn
    last_error,   \* st.session_state.last_error
    move_count,   \* st.session_state.move_count
    game_mode,    \* value of the "Select Game Mode" selectbox
    manual_move,  \* value of the text field keyed manual_move
    applied_text, \* the text field's value has been applied by its handler
    stockfish,    \* whether get_stockfish() returns an engine
    button,       \* the sidebar button pressed for this execution
    move,         \* value delivered by the board component for this execution
    pc,           \* where the script execution stands
    shown,        \* messages displayed by this execution
    last_step,    \* what the handler that ran last did
    engine_fen,   \* the position last given to the engine by set_fen_position
    undone_to     \* history length left by the undo that started this execution

vars == <<board, player_turn, last_error, move_count, game_mode, manual_move,
          stockfish, button, move, pc, shown, last_step, engine_fen, undone_to, applied_text>>

HumanVsHuman == "Human vs Human"
HumanVsAI == "Human vs AI (Extremely Difficult)"
GameModes == {HumanVsHuman, HumanVsAI}

\* st.session_state as one record.
Session ==
    [board |-> board, player_turn |-> player_turn,
     last_error |-> last_error, move_count |-> move_count]

Store(s) ==
    /\ board' = s.board
    /\ player_turn' = s.player_turn
    /\ last_error' = s.last_error
    /\ move_count' = s.move_count

\* st.session_state.last_error = None.
NoError == [message |-> None, move |-> <<>>]

IllegalMove(text) == [message |-> "Illegal move", move |-> text]
InvalidFormat(text) == [message |-> "Invalid move format", move |-> text]

\* Session state initialisation.
InitialSession ==
    [board |-> Board, player_turn |-> TRUE, last_error |-> NoError, move_count |-> 0]

\* Reset that forgets to zero the move counter.
reset_game_keeps_count(s) ==
    [board |-> Board, player_turn |-> TRUE, last_error |-> NoError,
     move_count |-> s.move_count]

\* "Reset Game" button.
reset_game(s) ==
    [board |-> Board, player_turn |-> TRUE, last_error |-> NoError, move_count |-> 0]

\* Undo that forgets to decrement the move counter.
undo_move_keeps_count(s) ==
    IF s.board.move_stack # <<>>
    THEN [s EXCEPT !.board = pop(s.board), !.player_turn = ~s.player_turn]
    ELSE s

\* Undo that flips the turn flag whether or not a move was popped.
undo_move_always_flips(s) ==
    IF s.board.move_stack # <<>>
    THEN [s EXCEPT !.board = pop(s.board),
                   !.player_turn = ~s.player_turn,
                   !.move_count = s.move_count - 1]
    ELSE [s EXCEPT !.player_turn = ~s.player_turn]

\* "Undo Move" button: pops the last move if there is one.
undo_move(s) ==
    IF s.board.move_stack # <<>>
    THEN [s EXCEPT !.board = pop(s.board),
                   !.player_turn = ~s.player_turn,
                   !.move_count = s.move_count - 1]
    ELSE s

\* A game-over test that looks for checkmate only.
game_over_branch_checkmate_only(s) == is_checkmate(s.board)

\* The game-over test that selects the branch of the page.
game_over_branch(s) == is_game_over(s.board)

\* No position has been given to the engine yet.
NoFen == <<>>
\* The execution was not started by an undo.
NoUndo == <<>>

\* An AI handler that asks for the best move without giving the position.
set_fen_position_skipped(s, held) == held

\* stockfish.set_fen_position(board.fen()): the position the engine holds
\* when it is asked for its best move.
set_fen_position(s, held) == fen(s.board)

\* A handler that stops the script when there is no engine.
after_ai_unavailable_stops == "idle"

\* Where the script goes on after the "AI not available" warning: to the
\* board and the human input.
after_ai_unavailable == "drag"

\* The engine is asked for a move when the mode is Human vs AI and black is
\* to move.
ai_to_move(s, mode) == mode = HumanVsAI /\ s.board.pos.turn = BLACK

\* An AI handler that applies whatever parses.
ai_outcome_unchecked(s, best_move) ==
    IF best_move = NoText THEN "ai_none"
    ELSE IF ~from_uci_ok(best_move) THEN "ai_error"
    ELSE "ai_applied"

\* What the AI handler does with the engine's answer best_move.
ai_outcome(s, best_move) ==
    IF best_move = NoText THEN "ai_none"
    ELSE IF ~from_uci_ok(best_move) THEN "ai_error"
    ELSE IF from_uci(best_move) \in legal_moves(s.board) THEN "ai_applied"
    ELSE "ai_invalid"

\* An AI handler that forgets to count its move.
ai_move_keeps_count(s, best_move) ==
    IF ai_outcome(s, best_move) = "ai_applied"
    THEN [s EXCEPT !.board = push(s.board, from_uci(best_move))]
    ELSE s

ai_move(s, best_move) ==
    IF ai_outcome(s, best_move) = "ai_applied"
    THEN [s EXCEPT !.board = push(s.board, from_uci(best_move)),
                   !.move_count = s.move_count + 1]
    ELSE s

\* A board-move handler that applies whatever parses.
drag_outcome_unchecked(s, text) ==
    IF text = NoText THEN "drag_none"
    ELSE IF Len(text) < 4 THEN "drag_short"
    ELSE IF ~from_uci_ok(text) THEN "drag_format"
    ELSE "drag_applied"

\* What the board-move handler does with the component's value.
drag_outcome(s, text) ==
    IF text = NoText THEN "drag_none"
    ELSE IF Len(text) < 4 THEN "drag_short"
    ELSE IF ~from_uci_ok(text) THEN "drag_format"
    ELSE IF from_uci(text) \in legal_moves(s.board) THEN "drag_applied"
    ELSE "drag_illegal"

drag_move(s, text) ==
    CASE drag_outcome(s, text) = "drag_applied" ->
            [s EXCEPT !.board = push(s.board, from_uci(text)),
                      !.player_turn = ~s.player_turn,
                      !.last_error = NoError,
                      !.move_count = s.move_count + 1]
      [] drag_outcome(s, text) = "drag_illegal" ->
            [s EXCEPT !.last_error = IllegalMove(text)]
      [] drag_outcome(s, text) = "drag_format" ->
            [s EXCEPT !.last_error = InvalidFormat(text)]
      [] OTHER -> s

\* What the manual-move handler does with the text field's value.
manual_outcome(s, text) ==
    IF text = NoText THEN "manual_none"
    ELSE IF ~from_uci_ok(text) THEN "manual_format"
    ELSE IF from_uci(text) \in legal_moves(s.board) THEN "manual_applied"
    ELSE "manual_illegal"

\* A manual-move handler that leaves the stored error message in place.
manual_move_input_keeps_error(s, text) ==
    IF manual_outcome(s, text) = "manual_applied"
    THEN [s EXCEPT !.board = push(s.board, from_uci(text)),
                   !.player_turn = ~s.player_turn,
                   !.move_count = s.move_count + 1]
    ELSE s

manual_move_input(s, text) ==
    IF manual_outcome(s, text) = "manual_applied"
    THEN [s EXCEPT !.board = push(s.board, from_uci(text)),
                   !.player_turn = ~s.player_turn,
                   !.last_error = NoError,
                   !.move_count = s.move_count + 1]
    ELSE s

(***************************************************************************)
(* Script executions.                                                      *)
(***************************************************************************)
\* The value of the text field after an execution that did not render it:
\* the framework keeps it or discards it.
Unrendered(text) == {text, NoText}

\* st.rerun(): the execution is abandoned and a new one starts with no
\* button pressed and no value from the board component.
Rerun(step, rendered) ==
    /\ pc' = "sidebar"
    /\ button' = "none"
    /\ move' = NoText
    /\ shown' = {}
    /\ last_step' = step
    /\ manual_move' \in (IF rendered THEN {manual_move} ELSE Unrendered(manual_move))

\* The text field's value stays applied while the field keeps it.
KeepText == applied_text' = (applied_text /\ manual_move' # NoText)

\* A push is taken only while the move stack is below the bound.
Room == Len(board.move_stack) < MaxPly

Init ==
    /\ board = InitialSession.board
    /\ player_turn = InitialSession.player_turn
    /\ last_error = InitialSession.last_error
    /\ move_count = InitialSession.move_count
    /\ game_mode = HumanVsHuman
    /\ manual_move = NoText
    /\ stockfish \in BOOLEAN
    /\ button = "none"
    /\ move = NoText
    /\ pc = "sidebar"
    /\ shown = {}
    /\ last_step = "init"
    /\ engine_fen = NoFen
    /\ undone_to = NoUndo
    /\ applied_text = FALSE

\* A user event starts an execution of the script.
StartRun ==
    /\ pc' = "sidebar"
    /\ shown' = {}
    /\ last_step' = "event"
    /\ undone_to' = NoUndo
    /\ UNCHANGED <<board, player_turn, last_error, move_count, stockfish, engine_fen>>

ClickReset ==
    /\ pc = "idle"
    /\ button' = "reset"
    /\ move' = NoText
    /\ StartRun
    /\ UNCHANGED <<game_mode, manual_move>>
    /\ KeepText

ClickUndo ==
    /\ pc = "idle"
    /\ button' = "undo"
    /\ move' = NoText
    /\ StartRun
    /\ UNCHANGED <<game_mode, manual_move>>
    /\ KeepText

SelectGameMode ==
    /\ pc = "idle"
    /\ \E m \in GameModes \ {game_mode} : game_mode' = m
    /\ button' = "none"
    /\ move' = NoText
    /\ StartRun
    /\ UNCHANGED manual_move
    /\ KeepText

DropPiece ==
    /\ pc = "idle"
    /\ \E text \in Inputs : move' = text
    /\ button' = "none"
    /\ StartRun
    /\ UNCHANGED <<game_mode, manual_move>>
    /\ KeepText

EditManualMove ==
    /\ pc = "idle"
    /\ ~game_over_branch(Session)
    /\ \E text \in (Inputs \cup {NoText}) \ {manual_move} : manual_move' = text
    /\ button' = "none"
    /\ move' = NoText
    /\ StartRun
    /\ UNCHANGED game_mode
    /\ applied_text' = FALSE

\* Sidebar: "Reset Game".
ResetGame ==
    /\ pc = "sidebar"
    /\ button = "reset"
    /\ Store(reset_game(Session))
    /\ Rerun("reset", FALSE)
    /\ UNCHANGED <<game_mode, stockfish, engine_fen, undone_to>>
    /\ KeepText

\* Sidebar: "Undo Move".
UndoMove ==
    /\ pc = "sidebar"
    /\ button = "undo"
    /\ Store(undo_move(Session))
    /\ IF board.move_stack # <<>>
       THEN Rerun("undo", FALSE)
       ELSE /\ pc' = "main"
            /\ last_step' = "undo_empty"
            /\ UNCHANGED <<manual_move, button, move, shown>>
    /\ undone_to' = (IF board.move_stack # <<>> THEN <<Len(board.move_stack) - 1>> ELSE undone_to)
    /\ UNCHANGED <<game_mode, stockfish, engine_fen>>
    /\ KeepText

\* Sidebar with no button pressed.
NoButton ==
    /\ pc = "sidebar"
    /\ button = "none"
    /\ pc' = "main"
    /\ last_step' = "no_button"
    /\ UNCHANGED <<board, player_turn, last_error, move_count, game_mode,
                   manual_move, stockfish, button, move, shown,
                   engine_fen, undone_to>>
    /\ KeepText

\* The game-over branch displays the result and the board and handles no
\* input; the text field is not rendered.
GameOver ==
    /\ pc = "main"
    /\ game_over_branch(Session)
    /\ pc' = "idle"
    /\ shown' = shown \cup {"game_over"}
    /\ last_step' = "game_over"
    /\ manual_move' \in Unrendered(manual_move)
    /\ UNCHANGED <<board, player_turn, last_error, move_count, game_mode,
                   stockfish, button, move,
                   engine_fen, undone_to>>
    /\ KeepText

\* The engine answers: no move, or some text.
AIMove ==
    /\ pc = "main"
    /\ ~game_over_branch(Session)
    /\ ai_to_move(Session, game_mode)
    /\ stockfish
    /\ \E best_move \in Inputs \cup {NoText} :
          LET out == ai_outcome(Session, best_move)
          IN  /\ out = "ai_applied" => Room
              /\ Store(ai_move(Session, best_move))
              /\ IF out = "ai_applied"
                 THEN Rerun(out, FALSE)
                 ELSE /\ pc' = "drag"
                      /\ shown' = shown \cup ({out} \ {"ai_none"})
                      /\ last_step' = out
                      /\ UNCHANGED <<manual_move, button, move>>
    /\ engine_fen' = set_fen_position(Session, engine_fen)
    /\ UNCHANGED <<game_mode, stockfish, undone_to>>
    /\ KeepText

\* The engine raises while it is queried: the execution ends with the
\* exception.
AIFault ==
    /\ pc = "main"
    /\ ~game_over_branch(Session)
    /\ ai_to_move(Session, game_mode)
    /\ stockfish
    /\ pc' = "idle"
    /\ engine_fen' \in {engine_fen, set_fen_position(Session, engine_fen)}
    /\ shown' = shown \cup {"exception"}
    /\ last_step' = "ai_fault"
    /\ UNCHANGED <<board, player_turn, last_error, move_count, game_mode,
                   manual_move, stockfish, button, move, undone_to>>
    /\ KeepText

\* get_stockfish() returned None.
AIUnavailable ==
    /\ pc = "main"
    /\ ~game_over_branch(Session)
    /\ ai_to_move(Session, game_mode)
    /\ ~stockfish
    /\ pc' = after_ai_unavailable
    /\ shown' = shown \cup {"ai_unavailable"}
    /\ last_step' = "ai_unavailable"
    /\ UNCHANGED <<board, player_turn, last_error, move_count, game_mode,
                   manual_move, stockfish, button, move,
                   engine_fen, undone_to>>
    /\ KeepText

\* Not the engine's turn.
AISkip ==
    /\ pc = "main"
    /\ ~game_over_branch(Session)
    /\ ~ai_to_move(Session, game_mode)
    /\ pc' = "drag"
    /\ last_step' = "ai_skip"
    /\ UNCHANGED <<board, player_turn, last_error, move_count, game_mode,
                   manual_move, stockfish, button, move, shown,
                   engine_fen, undone_to>>
    /\ KeepText

\* The move from the board component, then the display of last_error.
DragMove ==
    /\ pc = "drag"
    /\ LET out == drag_outcome(Session, move)
           s == drag_move(Session, move)
       IN  /\ out = "drag_applied" => Room
           /\ Store(s)
           /\ IF out = "drag_applied"
              THEN Rerun(out, FALSE)
              ELSE /\ pc' = "manual"
                   /\ shown' = shown \cup ({out} \cap {"drag_illegal", "drag_format"})
                                     \cup (IF s.last_error # NoError THEN {"last_error"} ELSE {})
                   /\ last_step' = out
                   /\ UNCHANGED <<manual_move, button, move>>
    /\ UNCHANGED <<game_mode, stockfish, engine_fen, undone_to>>
    /\ KeepText

\* The move from the text field; the execution ends after it.
ManualMove ==
    /\ pc = "manual"
    /\ LET out == manual_outcome(Session, manual_move)
       IN  /\ out = "manual_applied" => Room
           /\ Store(manual_move_input(Session, manual_move))
           /\ IF out = "manual_applied"
              THEN Rerun(out, TRUE)
              ELSE /\ pc' = "idle"
                   /\ shown' = shown \cup ({out} \cap {"manual_illegal", "manual_format"})
                   /\ last_step' = out
                   /\ UNCHANGED <<manual_move, button, move>>
    /\ UNCHANGED <<game_mode, stockfish, engine_fen, undone_to>>
    /\ applied_text' = (applied_text \/ manual_outcome(Session, manual_move) = "manual_applied")

Next ==
    \/ ClickReset
    \/ ClickUndo
    \/ SelectGameMode
    \/ DropPiece
    \/ EditManualMove
    \/ ResetGame
    \/ UndoMove
    \/ NoButton
    \/ GameOver
    \/ AIMove
    \/ AIFault
    \/ AIUnavailable
    \/ AISkip
    \/ DragMove
    \/ ManualMove

Spec == Init /\ [][Next]_vars

(***************************************************************************)
(* Properties.                                                             *)
(***************************************************************************)
Pushed == Len(board'.move_stack) = Len(board.move_stack) + 1

\* C1: in every reachable state the move counter equals the length of the
\* board's move stack.
C1_CounterIsHistoryLength == move_count = Len(board.move_stack)

\* An engine move has been applied on top of a human move.
C1_Witness ==
    /\ last_step = "ai_applied"
    /\ move_count = 2
    /\ Len(board.move_stack) = 2

\* C2: every step that adds a move to the move stack adds a move that the
\* rules library lists as legal in the position it is applied to, whether it
\* came from the board component, the text field or the engine.
C2_AppliedMovesAreLegal ==
    [][Pushed =>
         /\ peek(board') \in LegalMovesOf(board.pos)
         /\ board' = push(board, peek(board'))]_vars

\* The engine's move has been applied after a human move.
C2_Witness ==
    /\ last_step = "ai_applied"
    /\ Len(board.move_stack) >= 2

WellFormedIllegal(text) ==
    /\ text # NoText
    /\ from_uci_ok(text)
    /\ from_uci(text) \notin LegalMovesOf(board.pos)

\* C3: a well-formed but illegal move from the board component or the text
\* field is rejected (no new execution is started for it) and the position,
\* the history and the move counter stay as they were.
C3_IllegalMoveRejected ==
    [][(\/ pc = "drag" /\ WellFormedIllegal(move)
        \/ pc = "manual" /\ WellFormedIllegal(manual_move))
       => /\ board' = board
          /\ move_count' = move_count
          /\ last_step' \in {"drag_illegal", "manual_illegal"}]_vars

\* One execution has rejected an illegal move from the board component and
\* an illegal move from the text field, after a move was played.
C3_Witness ==
    /\ last_step = "manual_illegal"
    /\ "drag_illegal" \in shown
    /\ move_count > 0

\* C4 (as claimed): after every successful transition (a human move, an
\* engine move, an undo, a reset) the error message is none.
C4_ErrorClearedOnSuccess ==
    [][last_step' \in {"drag_applied", "manual_applied", "ai_applied", "undo", "reset"}
       => last_error' = NoError]_vars

\* C5: applying a legal move and then undoing restores the serialized
\* position, the history length and the move counter from before the move.
C5_ApplyThenUndoRestores ==
    [][Pushed =>
         LET undone == undo_move(Session')
         IN  /\ fen(undone.board) = fen(board)
             /\ Len(undone.board.move_stack) = Len(board.move_stack)
             /\ undone.move_count = move_count]_vars

\* The first move of a game has been undone.
C5_Witness ==
    /\ last_step = "undo"
    /\ fen(board) = fen(Board)
    /\ move_count = 0

\* C6: the undo handler with an empty history changes nothing of the
\* session and lets the execution go on.
C6_UndoOnEmptyIsNoOp ==
    [][pc = "sidebar" /\ button = "undo" /\ board.move_stack = <<>>
       => /\ UNCHANGED <<board, player_turn, last_error, move_count>>
          /\ pc' = "main"]_vars

\* Undo was pressed with an empty history while an error message was stored.
C6_Witness ==
    /\ last_step = "undo_empty"
    /\ board.move_stack = <<>>
    /\ last_error # NoError

\* C7: reset can be pressed in every state that awaits input, its handler
\* always runs, and it leaves a fresh starting position, an empty history,
\* no last move, no error message and a move counter of 0.
C7_ResetGivesFreshSession ==
    /\ [](pc = "idle" => ENABLED ClickReset)
    /\ [](pc = "sidebar" /\ button = "reset" => ENABLED ResetGame)
    /\ [][pc = "sidebar" /\ button = "reset"
          => /\ fen(board') = fen(Board)
             /\ board'.move_stack = <<>>
             /\ last_move(board') = <<>>
             /\ last_error' = NoError
             /\ move_count' = 0]_vars

\* Reset has run in Human vs AI mode with a text left in the text field.
C7_Witness ==
    /\ last_step = "reset"
    /\ game_mode = HumanVsAI
    /\ manual_move # NoText
    /\ move_count = 0

\* C8: while the position is terminal, only the two sidebar buttons change
\* the position: no value from the board component, the text field or the
\* engine is applied.
C8_NoMoveWhenGameOver ==
    [][is_game_over(board) /\ ~(pc = "sidebar" /\ button \in {"reset", "undo"})
       => board' = board /\ move_count' = move_count]_vars

\* The game is over, and the board component delivered a move that the rules
\* library lists as legal: it was not applied.
C8_Witness ==
    /\ last_step = "game_over"
    /\ is_game_over(board)
    /\ move # NoText
    /\ from_uci_ok(move)
    /\ from_uci(move) \in LegalMovesOf(board.pos)

\* C9 (as claimed): a step from a terminal position to a position that is
\* not terminal is a step of the reset handler.
C9_OnlyResetLeavesGameOver ==
    [][is_game_over(board) /\ ~is_game_over(board')
       => pc = "sidebar" /\ button = "reset"]_vars

\* A move of a pawn to its last rank, given without a promotion letter, whose
\* queen promotion is legal.
BarePromotion(text) ==
    /\ Len(text) = 4
    /\ from_uci_ok(text)
    /\ board.pos.sq[from_uci(text).from_square] = (IF board.pos.turn = WHITE THEN "P" ELSE "p")
    /\ rank_of(from_uci(text).to_square) = LastRank(board.pos.turn)
    /\ from_uci(text \o <<"q">>) \in LegalMovesOf(board.pos)

\* C10 (as claimed): a pawn move to the last rank given without a promotion
\* letter is applied as the queen promotion, on the board component's path
\* and on the text field's path.
C10_BarePromotionQueens ==
    [][(\/ pc = "drag" /\ BarePromotion(move) /\ Room
        \/ pc = "manual" /\ BarePromotion(manual_move) /\ Room)
       => board' = push(board, from_uci((IF pc = "drag" THEN move ELSE manual_move) \o <<"q">>))]_vars

\* A text that from_uci does not parse.
Malformed(text) == text # NoText /\ ~from_uci_ok(text)

\* C11 (as claimed): every malformed input is rejected with the parse error,
\* on the board component's path (stored as the invalid-format message and
\* displayed) and on the text field's path (displayed); none is ignored and
\* none is reported as an illegal move.
C11_MalformedGetsParseError ==
    [][/\ pc = "drag" /\ Malformed(move)
          => /\ last_step' = "drag_format"
             /\ last_error' = InvalidFormat(move)
             /\ "drag_format" \in shown'
       /\ pc = "manual" /\ Malformed(manual_move)
          => /\ last_step' = "manual_format"
             /\ "manual_format" \in shown']_vars

\* A well-formed text that names a promotion piece for a destination that is
\* not on the last rank of the side to move.
SuffixOffLastRank(text) ==
    /\ Len(text) = 5
    /\ from_uci_ok(text)
    /\ rank_of(from_uci(text).to_square) # LastRank(board.pos.turn)

\* C12 (as claimed): an input with a promotion piece for a destination off
\* the last rank is rejected as a parse error, not as an illegal move.
C12_SuffixOffLastRankIsParseError ==
    [][/\ pc = "drag" /\ SuffixOffLastRank(move) => last_step' = "drag_format"
       /\ pc = "manual" /\ SuffixOffLastRank(manual_move) => last_step' = "manual_format"]_vars

\* The message an engine fault would store.
EngineFault(text) == [message |-> "Invalid AI move", move |-> text]

\* C13 (as claimed): when the engine returns a move that is not legal, the
\* session's current error message becomes an engine error, the position,
\* the history and the counter are unchanged, and the execution goes on to
\* the human input.
C13_IllegalEngineMoveSetsError ==
    [][last_step' = "ai_invalid"
       => /\ last_error'.message = EngineFault(NoText).message
          /\ board' = board
          /\ move_count' = move_count
          /\ pc' = "drag"]_vars

\* C14 (as claimed): when the engine returns no move or raises while it is
\* queried, the failure is displayed, the position is unchanged and the
\* execution goes on to the human input of the same turn.
C14_EngineFailureSurfacedAndHandled ==
    [][last_step' \in {"ai_none", "ai_fault"}
       => /\ shown' \cap {"ai_none", "ai_error", "ai_invalid", "ai_unavailable", "exception"} # {}
          /\ board' = board
          /\ pc' = "drag"]_vars

EnginePending ==
    /\ ~stockfish
    /\ ai_to_move(Session, game_mode)
    /\ ~game_over_branch(Session)

\* C16: with no engine in Human vs AI mode on black's turn the execution
\* goes on past the warning with the session unchanged, a legal move from
\* the board component or the text field is applied, and reset and undo can
\* be pressed and take effect.
C16_UnavailableEngineDoesNotBlock ==
    /\ [](pc = "idle" => ENABLED ClickReset /\ ENABLED ClickUndo)
    /\ [](pc = "sidebar" /\ button # "none" => ENABLED ResetGame \/ ENABLED UndoMove)
    /\ [][EnginePending
          => /\ pc = "main"
                => /\ pc' = "drag"
                   /\ UNCHANGED <<board, player_turn, last_error, move_count, move, manual_move>>
             /\ pc = "drag" /\ drag_outcome(Session, move) = "drag_applied" /\ Room
                => board' = push(board, from_uci(move))
             /\ pc = "manual" /\ manual_outcome(Session, manual_move) = "manual_applied" /\ Room
                => board' = push(board, from_uci(manual_move))
             /\ pc = "sidebar" /\ button = "undo" /\ board.move_stack # <<>>
                => board' = pop(board)
             /\ pc = "sidebar" /\ button = "reset"
                => board' = Board]_vars

\* With no engine in Human vs AI mode, black's move came from the board
\* component and was applied.
C16_Witness ==
    /\ ~stockfish
    /\ game_mode = HumanVsAI
    /\ last_step = "drag_applied"
    /\ board.pos.turn = WHITE
    /\ Len(board.move_stack) = 2

\* The destinations the oracle gives for an origin square of a board.
OracleDestinations(b, s) ==
    {square_name(m.to_square) : m \in {x \in legal_moves(b) : x.from_square = s}}

Elements(seq) == {seq[i] : i \in 1 .. Len(seq)}

\* A handler has just produced the position: the session was created, or a
\* move was applied or undone, or the game was reset.  The other steps leave
\* the board as it is.
PositionProduced ==
    last_step \in {"init", "drag_applied", "manual_applied", "ai_applied", "undo", "reset"}

\* C17: in every position the session reaches, by applying or by undoing a
\* move, and for every origin square, the destinations listed by
\* get_legal_moves_for_square are those of the oracle's legal moves from
\* that square, and the list is empty for an empty square and for a square
\* holding a piece of the side not to move.
C17_DestinationsMatchOracle ==
    PositionProduced =>
        \A s \in Squares :
            LET listed == get_legal_moves_for_square(board, square_name(s))
            IN  /\ Elements(listed) = OracleDestinations(board, s)
                /\ ~Own(board.pos, s) => listed = <<>>

\* After an undo the pawn on c3 has destinations, the empty square a1 has
\* none and neither has the square of the other side's king.
C17_Witness ==
    /\ last_step = "undo"
    /\ board.pos.turn = WHITE
    /\ get_legal_moves_for_square(board, <<"c", "3">>) # <<>>
    /\ board.pos.sq[parse_square(<<"a", "1">>)] = Empty
    /\ get_legal_moves_for_square(board, <<"a", "1">>) = <<>>
    /\ \E s \in Squares : /\ Enemy(board.pos, s)
                          /\ get_legal_moves_for_square(board, square_name(s)) = <<>>

\* The text is a well-formed move that is legal on the board.
LegalInput(text) == from_uci_ok(text) /\ from_uci(text) \in legal_moves(board)

\* The step applied the move of the text.
Accepted(text) ==
    /\ Len(board'.move_stack) = Len(board.move_stack) + 1
    /\ peek(board') = from_uci(text)
    /\ board' = push(board, from_uci(text))
    /\ board'.pos.turn # board.pos.turn
    /\ player_turn' = ~player_turn
    /\ move_count' = move_count + 1
    /\ last_error' = NoError

\* C18: a legal move that reaches the board-move handler or the manual-move
\* handler (neither runs when the game is over) is accepted: the history
\* grows by that one move, the side to move and the turn owner switch, the
\* counter grows by one and the error message is none.
C18_LegalMoveAccepted ==
    [][/\ pc = "drag" /\ LegalInput(move) => Accepted(move)
       /\ pc = "manual" /\ LegalInput(manual_move) => Accepted(manual_move)]_vars

\* The text field's move was applied as the second move of the game.
C18_Witness ==
    /\ last_step = "manual_applied"
    /\ manual_move # NoText
    /\ peek(board) = from_uci(manual_move)
    /\ Len(board.move_stack) = 2
    /\ move_count = 2
    /\ last_error = NoError

\* C19 (as claimed): every rejection, by the board-move handler or by the
\* manual-move handler, stores an error message that describes the rejected
\* text.
C19_RejectionDescribesAttempt ==
    [][/\ last_step' \in {"drag_illegal", "drag_format"}
          => last_error'.message # None /\ last_error'.move = move
       /\ last_step' \in {"manual_illegal", "manual_format"}
          => last_error'.message # None /\ last_error'.move = manual_move]_vars

\* C20 (as claimed): when the session awaits input after an undo of a
\* non-empty history, the history and the counter are one shorter than
\* before the undo, in both game modes.
C20_UndoStandsAtNextInput ==
    pc = "idle" /\ undone_to # NoUndo
        => /\ Len(board.move_stack) = undone_to[1]
           /\ move_count = undone_to[1]

\* C22 (as claimed): in every reachable state the stored turn flag is true
\* exactly when white is to move in the position.
C22_TurnFlagMatchesPosition ==
    player_turn = (board.pos.turn = WHITE)

\* No entry of the list occurs at two indices.
NoDuplicates(seq) ==
    \A i, j \in 1 .. Len(seq) : seq[i] = seq[j] => i = j

\* C23 (as claimed): for every origin square of every position the session
\* reaches, get_legal_moves_for_square lists each destination at most once,
\* also for a pawn that can promote.
C23_DestinationsListedOnce ==
    \A s \in Squares :
        NoDuplicates(get_legal_moves_for_square(board, square_name(s)))

\* C21 (as claimed): the manual-move handler applies the text field's value
\* only if it has not applied that value before, whatever happened in
\* between, a reset or an undo included.
C21_TextAppliedAtMostOnce ==
    [][last_step' = "manual_applied" => ~applied_text]_vars

====
